---- MODULE Spec2Model ----
(***************************************************************************)
(* Model of nagios-plugin-gcp-resource.go: one invocation of the check.   *)
(* main parses the options, builds the metric client, reads the time      *)
(* series one by one (evaluate + label selection per series), folds the   *)
(* aggregated metrics against the thresholds and ends through output.     *)
(*                                                                         *)
(* float64 values are represented as integers counting 1/Scale units, so  *)
(* that int(x) (truncation toward zero) is a real conversion.  Strings    *)
(* built by fmt.Sprintf are records holding the format and its arguments; *)
(* string concatenation is sequence concatenation of such pieces.         *)
(* verbose(...) diagnostics are not part of the verdict and are left out. *)
(***************************************************************************)
EXTENDS Integers, Sequences, FiniteSets

VARIABLES pc, err, opts, resp, metrics, length, status, message, perfdata, idx, stdout, exitCode

vars == <<pc, err, opts, resp, metrics, length, status, message, perfdata, idx, stdout, exitCode>>

\* ---- bounds of the model ----
Scale == 2
MaxSeries == 2
MaxRespPoints == 1
MaxPoints == 2
MaxVal == 1
MaxThreshold == 2

\* ---- status constants (const block) ----
OK == 0
WARNING == 1
CRITICAL == 2
UNKNOWN == 3

\* ---- input domains ----
EvaluationTypes == {"LAST", "SUM", "MAX", "AVG"}
ValueTypes == {"INT64", "DOUBLE", "DISTRIBUTION", "BOOL"}
Thresholds == (-1)..MaxThreshold
RawVals == (-MaxVal)..MaxVal

\* a TypedValue is a oneof: kind says which member is set
TypedValues == [kind : ValueTypes, val : RawVals]

SeqsUpTo(S, n) == UNION {[1..k -> S] : k \in 0..n}

LabelValue == [k \in {"project_id", "zone", "instance_id"} |->
                 IF k = "project_id" THEN "p" ELSE IF k = "zone" THEN "z" ELSE "i"]
LabelMaps == {[k \in K |-> LabelValue[k]] :
                 K \in {{}, {"project_id"}, {"project_id", "zone"}, {"zone", "instance_id"}}}

\* series the backend returns: every point carries the series' value type
BackendSeries == UNION {[ValueType : {vt}, Labels : LabelMaps,
                         Points : SeqsUpTo([kind : {vt}, val : RawVals], MaxRespPoints)]
                        : vt \in ValueTypes}

\* series handed to evaluate directly: any typed value under any tag
AnySeries == [ValueType : ValueTypes, Labels : {[k \in {} |-> "p"]},
              Points : SeqsUpTo(TypedValues, MaxPoints)]

OptionSet == [Evalution : EvaluationTypes, Critical : Thresholds, Warning : Thresholds]

\* ---- conversions ----
\* float64(int64)
Float64(n) == n * Scale

\* int(float64): truncation toward zero
IntOf(x) == IF x >= 0 THEN x \div Scale ELSE -((-x) \div Scale)

GetInt64Value(tv) == IF tv.kind = "INT64" THEN tv.val ELSE 0
GetDoubleValue(tv) == IF tv.kind = "DOUBLE" THEN tv.val ELSE 0
GetDistributionMean(tv) == IF tv.kind = "DISTRIBUTION" THEN tv.val ELSE 0

getFloatValue(valueType, typedValue) ==
    CASE valueType = "INT64" -> Float64(GetInt64Value(typedValue))
      [] valueType = "DOUBLE" -> GetDoubleValue(typedValue)
      [] valueType = "DISTRIBUTION" -> GetDistributionMean(typedValue)
      [] OTHER -> 0

\* ---- evaluate ----
RECURSIVE SumLoop(_, _, _, _)
SumLoop(valueType, points, i, ret) ==
    IF i > Len(points) THEN ret
    ELSE SumLoop(valueType, points, i + 1, ret + getFloatValue(valueType, points[i]))

MaxKeep_flipped(current, ret) == IF current > ret THEN ret ELSE current
MaxKeep(current, ret) == IF current < ret THEN ret ELSE current

RECURSIVE MaxLoop(_, _, _, _)
MaxLoop(valueType, points, i, ret) ==
    IF i > Len(points) THEN ret
    ELSE MaxLoop(valueType, points, i + 1, MaxKeep(getFloatValue(valueType, points[i]), ret))

\* points[0] on an empty slice: index out of range, the runtime panics
evaluatePanics(evaluateType, points) == evaluateType = "LAST" /\ Len(points) = 0

evaluate(evaluateType, valueType, points) ==
    CASE evaluateType = "LAST" -> getFloatValue(valueType, points[1])
      [] evaluateType = "SUM" -> SumLoop(valueType, points, 1, 0)
      [] evaluateType = "MAX" -> MaxLoop(valueType, points, 1, 0)
      [] OTHER -> 0

\* ---- label selection ----
\* delete(labels, "project_id"), then the last label of a map iteration:
\* the iteration order of a map is unspecified, any remaining value can be last
metricNames(labels) ==
    LET rest == DOMAIN labels \ {"project_id"}
    IN IF rest = {} THEN {""} ELSE {labels[k] : k \in rest}

\* ---- strings ----
Lit(s) == [fmt |-> s]

BreachMessage(name, evalution, value, threshold) ==
    [fmt |-> "%s %s value: %d over %d", name |-> name, evalution |-> evalution,
     value |-> IntOf(value), over |-> IntOf(threshold)]

PerfToken(name, value, warning, critical) ==
    [fmt |-> "%s=%f;%d;%d ", name |-> name, value |-> value,
     warn |-> IntOf(warning), crit |-> IntOf(critical)]

\* ---- output ----
Prefix(st) ==
    CASE st = OK -> "OK - "
      [] st = WARNING -> "WARNING - "
      [] st = CRITICAL -> "CRITICAL - "
      [] st = UNKNOWN -> "UNKNOWN - "
      [] OTHER -> "UNKNOWN - "

\* fmt.Println(prefix + message); os.Exit(status)
output(st, msg) ==
    /\ stdout' = Append(stdout, <<Lit(Prefix(st))>> \o msg)
    /\ exitCode' = st
    /\ pc' = "exited"

\* ---- threshold fold, one metric ----
critBreach_okonly(o, value, st) == o.Critical > 0 /\ value >= o.Critical /\ st = OK
critBreach_always(o, value, st) == o.Critical > 0 /\ value >= o.Critical
critBreach(o, value, st) == o.Critical > 0 /\ value >= o.Critical /\ (st = OK \/ st = WARNING)

warnBreach_anystatus(o, value, st) == o.Warning > 0 /\ value >= o.Warning
warnBreach_nonactive(o, value, st) == value >= o.Warning /\ st = OK
warnBreach(o, value, st) == o.Warning > 0 /\ value >= o.Warning /\ st = OK

foldStatus(o, element, st) ==
    IF critBreach(o, element.Value, st) THEN CRITICAL
    ELSE IF warnBreach(o, element.Value, st) THEN WARNING
    ELSE st

foldMessage(o, element, st, msg) ==
    IF critBreach(o, element.Value, st)
      THEN <<BreachMessage(element.Name, o.Evalution, element.Value, o.Critical)>>
    ELSE IF warnBreach(o, element.Value, st)
      THEN <<BreachMessage(element.Name, o.Evalution, element.Value, o.Warning)>>
    ELSE msg

foldPerfdata_breachonly(o, element, st, pd) ==
    IF st = CRITICAL THEN pd
    ELSE pd \o <<PerfToken(element.Name, element.Value, o.Warning, o.Critical)>>
foldPerfdata(o, element, st, pd) ==
    pd \o <<PerfToken(element.Name, element.Value, o.Warning, o.Critical)>>

\* ---- state machine ----
ZeroOptions == [Evalution |-> "", Critical |-> 0, Warning |-> 0]

Init ==
    /\ pc = "parse"
    /\ err = "nil"
    /\ opts = ZeroOptions
    /\ resp = <<>>
    /\ metrics = <<>>
    /\ length = 0
    /\ status = OK
    /\ message = <<>>
    /\ perfdata = <<>>
    /\ idx = 0
    /\ stdout = <<>>
    /\ exitCode = 0

ParseFail ==
    /\ pc = "parse"
    /\ err' = "ParseErr"
    /\ output(UNKNOWN, <<Lit("Missing required arguments.")>>)
    /\ UNCHANGED <<opts, resp, metrics, length, status, message, perfdata, idx>>

ParseOk ==
    /\ pc = "parse"
    /\ \E o \in OptionSet : opts' = o
    /\ err' = "nil"
    /\ pc' = "client"
    /\ UNCHANGED <<resp, metrics, length, status, message, perfdata, idx, stdout, exitCode>>

ClientFail ==
    /\ pc = "client"
    /\ err' = "ClientErr"
    /\ message' = <<[fmt |-> "GCP SDK Client request failed (%s)", err |-> "ClientErr"]>>
    /\ output(UNKNOWN, message')
    /\ UNCHANGED <<opts, resp, metrics, length, status, perfdata, idx>>

ClientOk ==
    /\ pc = "client"
    /\ err' = "nil"
    /\ pc' = "next"
    /\ UNCHANGED <<opts, resp, metrics, length, status, message, perfdata, idx, stdout, exitCode>>

\* it.Next() returns a series
ItSeries ==
    /\ pc = "next"
    /\ Len(metrics) < MaxSeries
    /\ \E s \in BackendSeries : resp' = <<s>>
    /\ err' = "nil"
    /\ pc' = "aggregate"
    /\ UNCHANGED <<opts, metrics, length, status, message, perfdata, idx, stdout, exitCode>>

\* it.Next() returns an error other than iterator.Done
ItError_continue ==
    /\ pc = "next"
    /\ err' = "FetchErr"
    /\ stdout' = Append(stdout, <<Lit(Prefix(UNKNOWN)), Lit("Failed to fetch time series.")>>)
    /\ exitCode' = UNKNOWN
    /\ pc' = "next"
    /\ UNCHANGED <<opts, resp, metrics, length, status, message, perfdata, idx>>
ItError ==
    /\ pc = "next"
    /\ err' = "FetchErr"
    /\ resp' = <<>>
    /\ output(UNKNOWN, <<Lit("Failed to fetch time series.")>>)
    /\ UNCHANGED <<opts, metrics, length, status, message, perfdata, idx>>

\* evaluate(...) indexes points[0] of an empty slice: runtime panic,
\* the process dies with exit status 2 and prints no verdict
AggregatePanic ==
    /\ pc = "aggregate"
    /\ evaluatePanics(opts.Evalution, resp[1].Points)
    /\ pc' = "panicked"
    /\ exitCode' = 2
    /\ UNCHANGED <<err, opts, resp, metrics, length, status, message, perfdata, idx, stdout>>

\* rest of the loop body: evaluate, count the points, pick the name, append
Aggregate ==
    /\ pc = "aggregate"
    /\ ~evaluatePanics(opts.Evalution, resp[1].Points)
    /\ LET metric_value == evaluate(opts.Evalution, resp[1].ValueType, resp[1].Points)
       IN \E metric_name \in metricNames(resp[1].Labels) :
            metrics' = Append(metrics, [Name |-> metric_name, Value |-> metric_value])
    /\ length' = length + Len(resp[1].Points)
    /\ pc' = "next"
    /\ UNCHANGED <<err, opts, resp, status, message, perfdata, idx, stdout, exitCode>>

\* it.Next() returns iterator.Done with no point read at all
ItDoneEmpty ==
    /\ pc = "next"
    /\ length = 0
    /\ err' = "Done"
    /\ resp' = <<>>
    /\ output(UNKNOWN, <<Lit("Time series is empty.")>>)
    /\ UNCHANGED <<opts, metrics, length, status, message, perfdata, idx>>

\* it.Next() returns iterator.Done, the fold is initialised
ItDone ==
    /\ pc = "next"
    /\ length # 0
    /\ err' = "Done"
    /\ resp' = <<>>
    /\ status' = OK
    /\ message' = <<Lit("Everything is OK")>>
    /\ perfdata' = <<Lit("|")>>
    /\ idx' = 1
    /\ pc' = "fold"
    /\ UNCHANGED <<opts, metrics, length, stdout, exitCode>>

FoldStep ==
    /\ pc = "fold"
    /\ idx <= Len(metrics)
    /\ status' = foldStatus(opts, metrics[idx], status)
    /\ message' = foldMessage(opts, metrics[idx], status, message)
    /\ perfdata' = foldPerfdata(opts, metrics[idx], status, perfdata)
    /\ idx' = idx + 1
    /\ UNCHANGED <<pc, err, opts, resp, metrics, length, stdout, exitCode>>

FoldEnd ==
    /\ pc = "fold"
    /\ idx > Len(metrics)
    /\ output(status, message \o perfdata)
    /\ UNCHANGED <<err, opts, resp, metrics, length, status, message, perfdata, idx>>

Next ==
    \/ ParseFail
    \/ ParseOk
    \/ ClientFail
    \/ ClientOk
    \/ ItSeries
    \/ ItError
    \/ AggregatePanic
    \/ Aggregate
    \/ ItDoneEmpty
    \/ ItDone
    \/ FoldStep
    \/ FoldEnd

Spec == Init /\ [][Next]_vars

\* ---- evaluate on its own: the loop body applied to any series ----
InitEval ==
    /\ pc = "aggregate"
    /\ err = "nil"
    /\ opts \in [Evalution : EvaluationTypes, Critical : {0}, Warning : {0}]
    /\ \E s \in AnySeries : resp = <<s>>
    /\ metrics = <<>>
    /\ length = 0
    /\ status = OK
    /\ message = <<>>
    /\ perfdata = <<>>
    /\ idx = 0
    /\ stdout = <<>>
    /\ exitCode = 0

NextEval ==
    \/ AggregatePanic
    \/ Aggregate

SpecEval == InitEval /\ [][NextEval]_vars

\* ---- helpers for the properties ----
Terminated == pc \in {"exited", "panicked"}

\* the process ended through the threshold fold
FoldDone == pc = "exited" /\ err = "Done" /\ length # 0

\* number of metrics the fold has gone through
Processed == IF pc = "fold" THEN idx - 1 ELSE IF FoldDone THEN Len(metrics) ELSE 0

SetMax(S) == CHOOSE x \in S : \A y \in S : y <= x

FirstAtLeast(threshold, n) ==
    LET hits == {i \in 1..n : metrics[i].Value >= threshold}
    IN CHOOSE i \in hits : \A j \in hits : i <= j

VerdictLine(st, body) == <<Lit(Prefix(st))>> \o body

\* C1: when the critical threshold is active and some metric reaches it, the
\* status the fold hands to output is CRITICAL, wherever that metric sits in
\* the list and whatever the warning threshold is.
C1_CriticalWins ==
    (/\ (pc = "fold" /\ idx > Len(metrics)) \/ FoldDone
     /\ opts.Critical > 0
     /\ \E i \in 1..Len(metrics) : metrics[i].Value >= opts.Critical)
    => /\ status = CRITICAL
       /\ FoldDone => (exitCode = CRITICAL /\ stdout[1][1] = Lit("CRITICAL - "))

C1_Witness ==
    /\ FoldDone
    /\ Len(metrics) = 2
    /\ opts.Critical > 0
    /\ opts.Warning > 0
    /\ opts.Warning < opts.Critical
    /\ metrics[1].Value >= opts.Critical
    /\ metrics[2].Value >= opts.Warning
    /\ metrics[2].Value < opts.Critical
    /\ exitCode = CRITICAL

\* C2: across every step of the fold the status never decreases in the order
\* OK < WARNING < CRITICAL, and it is never UNKNOWN.
C2_Monotone ==
    [][pc = "fold" =>
         /\ status \in {OK, WARNING, CRITICAL}
         /\ status' \in {OK, WARNING, CRITICAL}
         /\ status' >= status]_vars

C2_Witness ==
    /\ pc = "fold"
    /\ idx = 3
    /\ status = CRITICAL
    /\ opts.Warning > 0
    /\ metrics[1].Value >= opts.Critical
    /\ metrics[2].Value >= opts.Warning
    /\ metrics[2].Value < opts.Critical

\* C3: a threshold <= 0 is disabled: with both thresholds <= 0 the fold ends
\* OK with "Everything is OK"; warning <= 0 never gives WARNING and
\* critical <= 0 never gives CRITICAL.
C3_Disabled ==
    /\ (opts.Warning <= 0 /\ opts.Critical <= 0 /\ (pc = "fold" \/ FoldDone))
         => (status = OK /\ message = <<Lit("Everything is OK")>>)
    /\ (opts.Warning <= 0 /\ opts.Critical <= 0 /\ FoldDone)
         => (exitCode = OK /\ stdout[1][1] = Lit("OK - ") /\ stdout[1][2] = Lit("Everything is OK"))
    /\ opts.Warning <= 0 => (status # WARNING /\ (Terminated => exitCode # WARNING))
    /\ opts.Critical <= 0 => (status # CRITICAL /\ (pc = "exited" => exitCode # CRITICAL))

C3_Witness ==
    /\ FoldDone
    /\ opts.Warning <= 0
    /\ opts.Critical < 0
    /\ Len(metrics) = 2
    /\ metrics[1].Value > 0
    /\ metrics[2].Value < 0
    /\ exitCode = OK

\* C4: every invocation terminates through output with exactly one verdict
\* whose exit code is the verdict's status, in 0..3, with the matching prefix;
\* no termination without a verdict is reachable.
C4_OneVerdict ==
    /\ Terminated =>
         /\ Len(stdout) = 1
         /\ exitCode \in {OK, WARNING, CRITICAL, UNKNOWN}
         /\ stdout[1][1] = Lit(Prefix(exitCode))
    /\ ~Terminated => stdout = <<>>

\* C5: when the source returned zero points in total (no series, or only
\* series without points), for every aggregation policy the invocation ends
\* UNKNOWN with "Time series is empty." and no fold verdict.
C5_EmptyUnknown ==
    (Terminated /\ err \in {"nil", "Done"} /\ length = 0)
    => /\ pc = "exited"
       /\ exitCode = UNKNOWN
       /\ stdout = <<VerdictLine(UNKNOWN, <<Lit("Time series is empty.")>>)>>

\* C6: when the iterator returns an error other than Done, at any position of
\* the stream, the invocation ends UNKNOWN (exit code 3), reported once, with
\* no metric in the verdict, no further series read and no other verdict.
C6_FetchError ==
    err = "FetchErr"
    => /\ pc = "exited"
       /\ exitCode = UNKNOWN
       /\ stdout = <<VerdictLine(UNKNOWN, <<Lit("Failed to fetch time series.")>>)>>
       /\ ~ENABLED Next

C6_Witness ==
    /\ err = "FetchErr"
    /\ Len(metrics) = 2
    /\ opts.Critical > 0
    /\ metrics[1].Value >= opts.Critical
    /\ exitCode = UNKNOWN

\* the loop body has just aggregated the series held in resp
Aggregated == pc = "next" /\ resp # <<>> /\ Len(metrics) > 0

\* C7: for LAST, SUM and MAX, every value type and every single point p,
\* evaluate on [p] equals getFloatValue of p, negative and zero included.
C7_SinglePoint ==
    (/\ Aggregated
     /\ opts.Evalution \in {"LAST", "SUM", "MAX"}
     /\ Len(resp[1].Points) = 1)
    => metrics[Len(metrics)].Value = getFloatValue(resp[1].ValueType, resp[1].Points[1])

\* C8: MAX has a zero floor: the result is the greater of 0 and the largest
\* normalized point value (all negative -> 0, empty -> 0, otherwise the true
\* maximum), whatever the order of the points.
C8_MaxZeroFloor ==
    (Aggregated /\ opts.Evalution = "MAX")
    => LET s == resp[1]
           vals == {getFloatValue(s.ValueType, s.Points[i]) : i \in 1..Len(s.Points)}
       IN metrics[Len(metrics)].Value = SetMax(vals \cup {0})

C8_Witness ==
    /\ Aggregated
    /\ opts.Evalution = "MAX"
    /\ Len(resp[1].Points) = 2
    /\ \A i \in 1..2 : getFloatValue(resp[1].ValueType, resp[1].Points[i]) < 0
    /\ metrics[1].Value = 0

\* C9: after k metrics the perfdata is "|" followed by exactly k tokens, one
\* per metric in input order, each with the metric's name and value and the
\* same int(warning) and int(critical), whatever the status at that step.
C9_Perfdata ==
    (pc = "fold" \/ FoldDone)
    => /\ Len(perfdata) = 1 + Processed
       /\ perfdata[1] = Lit("|")
       /\ \A k \in 1..Processed :
            perfdata[k + 1] = [fmt |-> "%s=%f;%d;%d ", name |-> metrics[k].Name,
                               value |-> metrics[k].Value,
                               warn |-> IntOf(opts.Warning), crit |-> IntOf(opts.Critical)]
       /\ FoldDone => stdout[1] = <<Lit(Prefix(status))>> \o message \o perfdata

C9_Witness ==
    /\ FoldDone
    /\ Len(metrics) = 2
    /\ Len(perfdata) = 3
    /\ metrics[1].Value >= opts.Critical
    /\ opts.Critical > 0
    /\ metrics[2].Value < opts.Warning
    /\ metrics[1].Name # metrics[2].Name
    /\ status = CRITICAL

\* C10: the message names one metric: with status CRITICAL the first metric
\* in input order whose value is >= critical (int(value), int(critical)); with
\* status WARNING the first one whose value is >= warning (int(value),
\* int(warning)); later breaches at the same or a lower level never replace it.
C10_Message ==
    (pc = "fold" \/ FoldDone)
    => /\ status = CRITICAL =>
            LET i == FirstAtLeast(opts.Critical, Processed)
            IN /\ \E j \in 1..Processed : metrics[j].Value >= opts.Critical
               /\ message = <<[fmt |-> "%s %s value: %d over %d", name |-> metrics[i].Name,
                               evalution |-> opts.Evalution,
                               value |-> IntOf(metrics[i].Value),
                               over |-> IntOf(opts.Critical)]>>
       /\ status = WARNING =>
            LET i == FirstAtLeast(opts.Warning, Processed)
            IN /\ \E j \in 1..Processed : metrics[j].Value >= opts.Warning
               /\ message = <<[fmt |-> "%s %s value: %d over %d", name |-> metrics[i].Name,
                               evalution |-> opts.Evalution,
                               value |-> IntOf(metrics[i].Value),
                               over |-> IntOf(opts.Warning)]>>
       /\ FoldDone => stdout[1][2] = message[1]

C10_Witness ==
    /\ FoldDone
    /\ Len(metrics) = 2
    /\ status = WARNING
    /\ metrics[1].Value >= opts.Warning
    /\ metrics[2].Value > metrics[1].Value
    /\ metrics[1].Name # metrics[2].Name
    /\ message[1].name = metrics[1].Name

====
